---- MODULE Spec2Model ----
(***************************************************************************)
(* Model of src/args.rs: the schema compiler (CliArgs::parse_schema), the  *)
(* argument table (CliArgs::with), the token scan and the resolution pass  *)
(* (CliArgs::parse_cmd, ArgSettings::apply) and the typed accessors.       *)
(*                                                                         *)
(* A Rust string is modelled as the sequence of its characters, so that    *)
(* starts_with, split_once, push_str and the regular expression are        *)
(* computed the way the code computes them.  An Option is the empty        *)
(* sequence (None) or a one-element sequence (Some).                       *)
(***************************************************************************)
EXTENDS Integers, Sequences, FiniteSets, TLC

\* ------------------------------------------------------------------ bounds
\* number of `with` calls made on one CliArgs
MaxArgs == 2
\* length of the argument vector read by parse_cmd
MaxArgv == 3

\* ----------------------------------------------------------------- strings
Chars(s) == [i \in 1..Len(s) |-> SubSeq(s, i, i)]

None == << >>
Some(x) == << x >>

\* s.starts_with(p)
StartsWith(s, p) == Len(s) >= Len(p) /\ SubSeq(s, 1, Len(p)) = p

\* positions at which pattern p occurs in s
Occurrences(s, p) == {i \in 1..(Len(s) - Len(p) + 1) : SubSeq(s, i, i + Len(p) - 1) = p}

Min(S) == CHOOSE x \in S : \A y \in S : x <= y

\* s.split_once(p): None, or Some(<<before, after>>) around the first occurrence
split_once(s, p) ==
    IF Occurrences(s, p) = {} THEN None
    ELSE LET i == Min(Occurrences(s, p))
         IN  Some(<< SubSeq(s, 1, i - 1), SubSeq(s, i + Len(p), Len(s)) >>)

\* s.split_whitespace().collect::<String>()
StripWhitespace(s) == SelectSeq(s, LAMBDA c : c # " ")

\* ------------------------------------------------------------ str::parse
Digits == <<"0", "1", "2", "3", "4", "5", "6", "7", "8", "9">>
IsDigit(c) == \E d \in 1..10 : Digits[d] = c
DigitVal(c) == (CHOOSE d \in 1..10 : Digits[d] = c) - 1

I32Max == 2147483647
I32Min == (0 - I32Max) - 1

\* the value of a digit string, or -1 when it exceeds I32Max
RECURSIVE DigitsValue(_)
DigitsValue(s) ==
    IF s = << >> THEN 0
    ELSE LET hi == DigitsValue(SubSeq(s, 1, Len(s) - 1))
             d  == DigitVal(s[Len(s)])
         IN  IF hi < 0 \/ hi > (I32Max - d) \div 10 THEN -1 ELSE 10 * hi + d

\* <i32 as FromStr>::from_str: optional sign, at least one digit, no overflow
ParseInt(s) ==
    LET signed == s # << >> /\ s[1] \in {"+", "-"}
        neg    == signed /\ s[1] = "-"
        body   == IF signed THEN Tail(s) ELSE s
    IN  IF body = << >> \/ (\E i \in 1..Len(body) : ~IsDigit(body[i])) THEN None
        ELSE IF DigitsValue(body) >= 0
             THEN Some(IF neg THEN 0 - DigitsValue(body) ELSE DigitsValue(body))
        ELSE IF neg /\ DigitsValue(SubSeq(body, 1, Len(body) - 1)) = I32Max \div 10
                    /\ DigitVal(body[Len(body)]) = 8
             THEN Some(I32Min)
        ELSE None

\* <bool as FromStr>::from_str
ParseBool(s) ==
    IF s = Chars("true") THEN Some(TRUE)
    ELSE IF s = Chars("false") THEN Some(FALSE)
    ELSE None

\* <String as FromStr>::from_str never fails
ParseString(s) == Some(s)

\* ---------------------------------------------------------- SCHEMA_REGEX
\* the characters of \w that the model's inputs use
WordChars == {"a", "b", "c", "d", "e", "g", "i", "l", "m", "n", "s", "t", "u", "x", "A",
              "0", "1", "2", "3", "4", "5", "6", "7", "8", "9", "_"}
\* the class [\w_-]
KeyClass == WordChars \cup {"_", "-"}

At(s, i) == IF i \in 1..Len(s) THEN s[i] ELSE ""

\* last position of the maximal run of [\w_-] characters that starts at i
\* (i - 1 when s[i] is not in the class)
RECURSIVE RunEnd(_, _)
RunEnd(s, i) == IF At(s, i) \in KeyClass THEN RunEnd(s, i + 1) ELSE i - 1

\* =(?P<type>[bis])\?? matched from position e (the "=") on
TypeAt(s, e) == At(s, e) = "=" /\ At(s, e + 1) \in {"b", "i", "s"}

\* the largest element of a set of positions, or 0 for the empty set
LastOf(S) == IF S = {} THEN 0 ELSE CHOOSE e \in S : \A f \in S : f <= e

\* (?P<kl>--[\w_-]+) at position i followed by the type part: the position of "=", or 0.
\* [\w_-]+ is greedy and backtracks; every shorter run that is followed by "=" is tried.
KlEnd(s, i) ==
    IF At(s, i) = "-" /\ At(s, i + 1) = "-"
    THEN LastOf({e \in (i + 3)..(RunEnd(s, i + 2) + 1) : TypeAt(s, e)})
    ELSE 0

\* (?P<ks>-[\w_-]+) at position i followed by the type part
KsEnd(s, i) ==
    IF At(s, i) = "-"
    THEN LastOf({e \in (i + 2)..(RunEnd(s, i + 1) + 1) : TypeAt(s, e)})
    ELSE 0

\* the positions of a "/-" that can end the long name started at i
Slashes(s, i) == {m \in (i + 3)..(RunEnd(s, i + 2) + 1) : At(s, m) = "/" /\ At(s, m + 1) = "-"}

\* (?P<kls>--[\w_-]+/-[\w_-]+) at position i followed by the type part
KlsEnd(s, i) ==
    IF At(s, i) = "-" /\ At(s, i + 1) = "-"
    THEN LastOf({e \in 1..Len(s) : \E m \in Slashes(s, i) :
                    e \in (m + 3)..(RunEnd(s, m + 2) + 1) /\ TypeAt(s, e)})
    ELSE 0

\* the positions at which the regex matches
MatchStarts(s) == {i \in 1..Len(s) : KlEnd(s, i) > 0 \/ KsEnd(s, i) > 0 \/ KlsEnd(s, i) > 0}

\* the groups of the match at position i, whose alternatives end at kl, ks, kls (0: no match);
\* the alternatives are tried in the order kl, ks, kls.
\* The regex has no group named "optional": the \?? is matched but not captured.
Groups(s, i, kl, ks, kls) ==
    [kl   |-> IF kl > 0 THEN Some(SubSeq(s, i, kl - 1)) ELSE None,
     ks   |-> IF kl = 0 /\ ks > 0 THEN Some(SubSeq(s, i, ks - 1)) ELSE None,
     kls  |-> IF kl = 0 /\ ks = 0 THEN Some(SubSeq(s, i, kls - 1)) ELSE None,
     type |-> IF kl > 0 THEN s[kl + 1] ELSE IF ks > 0 THEN s[ks + 1] ELSE s[kls + 1],
     optional |-> None]

GroupsAt(s, i) == Groups(s, i, KlEnd(s, i), KsEnd(s, i), KlsEnd(s, i))

FirstMatch(s, starts) == IF starts = {} THEN None ELSE Some(GroupsAt(s, Min(starts)))

\* RE.captures(&schema): the leftmost match
Captures(s) == FirstMatch(s, MatchStarts(s))

\* ------------------------------------------------------------- Arg, apply
\* apply with the non-optional branch failing even when a default was provided
apply_ignoring_default(settings, vals) ==
    IF vals = << >>
    THEN IF settings.optional
         THEN IF settings.default_val # None
              THEN [ok |-> TRUE, vals |-> Append(vals, settings.default_val[1])]
              ELSE [ok |-> TRUE, vals |-> vals]
         ELSE [ok |-> FALSE, vals |-> vals]
    ELSE [ok |-> TRUE, vals |-> vals]

\* ArgSettings::apply: the value list after the call, and whether it returned Ok
apply(settings, vals) ==
    IF vals = << >>
    THEN IF settings.optional
         THEN IF settings.default_val # None
              THEN [ok |-> TRUE, vals |-> Append(vals, settings.default_val[1])]
              ELSE [ok |-> TRUE, vals |-> vals]
         ELSE IF settings.default_val # None
              THEN [ok |-> TRUE, vals |-> Append(vals, settings.default_val[1])]
              ELSE [ok |-> FALSE, vals |-> vals]
    ELSE [ok |-> TRUE, vals |-> vals]

\* Arg::apply_settings on one Arg
apply_settings(arg) ==
    LET r == apply(arg.settings, arg.vals)
    IN  [ok |-> r.ok, arg |-> [arg EXCEPT !.vals = r.vals]]

\* the loop `for arg in self.args.iter_mut() { arg.apply_settings()?; }`:
\* descriptors are resolved in order and the first failure returns
RECURSIVE ApplyAll(_, _)
ApplyAll(as, i) ==
    IF i > Len(as) THEN [ok |-> TRUE, args |-> as]
    ELSE LET r == apply_settings(as[i])
         IN  IF r.ok THEN ApplyAll([as EXCEPT ![i] = r.arg], i + 1)
             ELSE [ok |-> FALSE, args |-> [as EXCEPT ![i] = r.arg]]

\* str::parse::<T>() for the T of each Arg variant
ParseAs(kind, s) ==
    IF kind = "Bool" THEN ParseBool(s)
    ELSE IF kind = "Int" THEN ParseInt(s)
    ELSE ParseString(s)

KindOf(t) == IF t = "b" THEN "Bool" ELSE IF t = "i" THEN "Int" ELSE "String"

\* ----------------------------------------------------------- parse_schema
\* (key_l, key_s) from the groups kls, kl, ks
Names(kls, kl, ks) ==
    IF kls # None
    THEN << Some(split_once(kls[1], Chars("/"))[1][1]), Some(split_once(kls[1], Chars("/"))[1][2]) >>
    ELSE << kl, ks >>

\* the Arg built for a kind, the `optional` flag and the parsed default
MakeArg(kind, optional, default_val) ==
    [kind |-> kind,
     vals |-> << >>,
     settings |-> [optional |-> optional, default_val |-> default_val]]

\* default_val.map(|d| d.as_str().parse().unwrap()): panics when the literal does not parse
BuildArg(names, kind, optional, default_val, parsed) ==
    IF default_val # None /\ parsed = None THEN [panic |-> TRUE]
    ELSE [panic |-> FALSE,
          key_l |-> names[1],
          key_s |-> names[2],
          arg   |-> MakeArg(kind, optional, IF default_val = None THEN None ELSE parsed)]

FromGroups(c, default_val) ==
    BuildArg(Names(c.kls, c.kl, c.ks), KindOf(c.type), c.optional # None, default_val,
             IF default_val = None THEN None ELSE ParseAs(KindOf(c.type), default_val[1]))

\* RE.captures(&schema).unwrap(): panics when the schema does not match
FromCaptures(captures, default_val) ==
    IF captures = None THEN [panic |-> TRUE] ELSE FromGroups(captures[1], default_val)

\* the text after the first "::>", taken before whitespace is stripped
DefaultText(split) == IF split # None THEN Some(split[1][2]) ELSE None

parse_schema(schema) ==
    FromCaptures(Captures(StripWhitespace(schema)), DefaultText(split_once(schema, Chars("::>"))))

\* ------------------------------------------------------------------ inputs
\* the declarations a caller passes to `with`: the first three are those of the test
\* cli_args_use, the last one has a default that does not parse
Schemas == {Chars("--name/-n=s"),
            Chars("--age/-a = i? ::>18"),
            Chars("--adult=b?"),
            Chars("-n-n=b"),
            Chars("-n-n=s"),
            Chars("-c=i::>x")}

\* the strings env::args() can hold
Tokens == {Chars("-n"), Chars("-a"), Chars("-n-n"), Chars("7"), Chars("A"),
           Chars("--age=7")}

RECURSIVE SeqsUpTo(_, _)
SeqsUpTo(S, n) ==
    IF n = 0 THEN {<< >>}
    ELSE LET shorter == SeqsUpTo(S, n - 1)
         IN  shorter \cup {Append(q, x) : q \in shorter, x \in S}

ArgvSet == SeqsUpTo(Tokens, MaxArgv)

\* ------------------------------------------------------------------- state
VARIABLES
    keys,       \* CliArgs.keys: name -> index into args (0-based)
    args,       \* CliArgs.args
    schemas,    \* the strings passed to `with`, in call order (history)
    declared,   \* the (key_l, key_s) that parse_schema returned to each `with` (history)
    args_vec,   \* parse_cmd: the collected env::args()
    start,      \* parse_cmd: 1 when args_vec[0] opened as a file
    pos,        \* parse_cmd: 1-based position of the loop's next token
    prev_key,   \* parse_cmd: the key awaiting a value
    pc,         \* "build", "scan", "done" (parse_cmd returned), "panic"
    result,     \* what parse_cmd returned: "none", "Ok", "Err"
    panic_msg   \* the message of the panic that ended the run

vars == << keys, args, schemas, declared, args_vec, start, pos, prev_key, pc, result, panic_msg >>

scan_vars == << args_vec, start, pos, prev_key >>

Init ==
    /\ keys = << >>
    /\ args = << >>
    /\ schemas = << >>
    /\ declared = << >>
    /\ args_vec = << >>
    /\ start = 0
    /\ pos = 1
    /\ prev_key = << >>
    /\ pc = "build"
    /\ result = "none"
    /\ panic_msg = "none"

\* HashMap::insert
Insert(m, k, v) == [x \in DOMAIN m \cup {k} |-> IF x = k THEN v ELSE m[x]]

\* `with` written with `else if`: the long name is inserted only when there is no short one
InsertKeysElseIf(m, key_l, key_s, ind) ==
    IF key_s # None THEN Insert(m, key_s[1], ind)
    ELSE IF key_l # None THEN Insert(m, key_l[1], ind)
    ELSE m

\* the two `if let Some(..) { self.keys.insert(.., ind) }` of `with`
InsertKeys(m, key_l, key_s, ind) ==
    LET m1 == IF key_s # None THEN Insert(m, key_s[1], ind) ELSE m
    IN  IF key_l # None THEN Insert(m1, key_l[1], ind) ELSE m1

Panic(msg) ==
    /\ pc' = "panic"
    /\ panic_msg' = msg
    /\ UNCHANGED result

\* CliArgs::with(schema), given what parse_schema(schema) did
WithParsed(schema, p) ==
    IF p.panic
    THEN /\ Panic("unwrap")
         /\ UNCHANGED << keys, args, schemas, declared >>
    ELSE /\ keys' = InsertKeys(keys, p.key_l, p.key_s, Len(args))
         /\ args' = Append(args, p.arg)
         /\ schemas' = Append(schemas, schema)
         /\ declared' = Append(declared, [key_l |-> p.key_l, key_s |-> p.key_s])
         /\ UNCHANGED << pc, result, panic_msg >>

\* CliArgs::with(schema)
With(schema) ==
    /\ pc = "build"
    /\ Len(args) < MaxArgs
    /\ WithParsed(schema, parse_schema(schema))
    /\ UNCHANGED scan_vars

\* CliArgs::parse(args_line): todo!() is its first statement
Parse ==
    /\ pc = "build"
    /\ Panic("not yet implemented")
    /\ UNCHANGED << keys, args, schemas, declared, scan_vars >>

\* ---------------------------------------------------------------- lookups
is_long_key(s) == StartsWith(s, Chars("--"))

is_short_key(s) == StartsWith(s, Chars("-")) /\ ~StartsWith(s, Chars("--"))

\* self.args.get(*self.keys.get(key)?): the 1-based position in args, as an Option
ArgIndex(key) ==
    IF key \in DOMAIN keys /\ keys[key] < Len(args) THEN Some(keys[key] + 1) ELSE None

get_arg(key) == IF ArgIndex(key) = None THEN None ELSE Some(args[ArgIndex(key)[1]])

get_mut_arg(key) == get_arg(key)

\* vals.push(v) on the Arg at position i
Push(i, v) == [args EXCEPT ![i].vals = Append(@, v)]

\* ---------------------------------------------------------------- accessors
\* Result<&[T], ArgError>
GetMulti(kind, key) ==
    IF get_arg(key) = None THEN [ok |-> FALSE, err |-> "WrongKey"]
    ELSE IF get_arg(key)[1].kind = kind THEN [ok |-> TRUE, vals |-> get_arg(key)[1].vals]
    ELSE [ok |-> FALSE, err |-> "WrongType"]

get_bool_multi(key) == GetMulti("Bool", key)

get_int_multi(key) == GetMulti("Int", key)

get_string_multi(key) == GetMulti("String", key)

\* ---------------------------------------------------------------- parse_cmd
\* `if args_vec.is_empty() { return Ok(()); }`
ParseCmdNoArgs ==
    /\ pc = "build"
    /\ args_vec' = << >>
    /\ pc' = "done"
    /\ result' = "Ok"
    /\ UNCHANGED << keys, args, schemas, declared, start, pos, prev_key, panic_msg >>

\* env::args() is argv; file_ok is whether File::open(&args_vec[0]) succeeded
ParseCmdBegin(argv, file_ok) ==
    /\ argv # << >>
    /\ args_vec' = argv
    /\ start' = IF file_ok THEN 1 ELSE 0
    /\ pos' = start' + 1
    /\ prev_key' = << >>
    /\ pc' = "scan"
    /\ UNCHANGED << keys, args, schemas, declared, result, panic_msg >>

\* CliArgs::parse_cmd called on a non-empty argument vector, up to the loop
ParseCmd ==
    /\ pc = "build"
    /\ \E argv \in ArgvSet, file_ok \in BOOLEAN : ParseCmdBegin(argv, file_ok)

\* one iteration of the loop: what it does to args and prev_key, or how it leaves
Next_(as, pk) == [out |-> "next", args |-> as, prev_key |-> pk]
Err_ == [out |-> "err"]
Panic_(msg) == [out |-> "panic", msg |-> msg]

\* the branch `if Self::is_long_key(arg_str)`
long_key(arg_str) ==
    LET kv    == split_once(arg_str, Chars("="))
        key_l == IF kv = None THEN arg_str ELSE kv[1][1]
        val   == IF kv = None THEN << >> ELSE kv[1][2]
        ix    == ArgIndex(key_l)
    IN  IF ix = None THEN Panic_("key not found")
        ELSE IF args[ix[1]].kind = "Bool"
             THEN IF val # << >> THEN Panic_("assertion failed: val.is_empty()")
                  ELSE Next_(Push(ix[1], TRUE), prev_key)
        ELSE IF args[ix[1]].kind = "Int"
             THEN IF ParseInt(val) = None THEN Err_
                  ELSE Next_(Push(ix[1], ParseInt(val)[1]), prev_key)
        ELSE Next_(Push(ix[1], val), prev_key)

\* the branch `else if Self::is_short_key(arg_str)`
short_key(arg_str) ==
    LET ix == ArgIndex(arg_str)
    IN  IF ix = None THEN Panic_("key not found")
        ELSE IF args[ix[1]].kind = "Bool" THEN Next_(Push(ix[1], TRUE), prev_key)
        ELSE Next_(args, prev_key \o arg_str)

\* the branch `else { // is val`
is_val(arg_str) ==
    LET ix == ArgIndex(prev_key)
    IN  IF ix = None THEN Panic_("key not found")
        ELSE IF args[ix[1]].kind = "Int"
             THEN IF ParseInt(arg_str) = None THEN Err_
                  ELSE Next_(Push(ix[1], ParseInt(arg_str)[1]), << >>)
        ELSE IF args[ix[1]].kind = "String" THEN Next_(Push(ix[1], arg_str), << >>)
        ELSE Panic_("How did I end up here?")

Iterate(r) ==
    IF r.out = "panic"
    THEN Panic(r.msg) /\ UNCHANGED << args, pos, prev_key >>
    ELSE IF r.out = "err"
    THEN /\ pc' = "done"
         /\ result' = "Err"
         /\ UNCHANGED << args, pos, prev_key, panic_msg >>
    ELSE /\ args' = r.args
         /\ prev_key' = r.prev_key
         /\ pos' = pos + 1
         /\ UNCHANGED << pc, result, panic_msg >>

Scanning == pc = "scan" /\ pos <= Len(args_vec)

ScanLongKey ==
    /\ Scanning
    /\ is_long_key(args_vec[pos])
    /\ Iterate(long_key(args_vec[pos]))
    /\ UNCHANGED << keys, schemas, declared, args_vec, start >>

ScanShortKey ==
    /\ Scanning
    /\ ~is_long_key(args_vec[pos])
    /\ is_short_key(args_vec[pos])
    /\ Iterate(short_key(args_vec[pos]))
    /\ UNCHANGED << keys, schemas, declared, args_vec, start >>

ScanVal ==
    /\ Scanning
    /\ ~is_long_key(args_vec[pos])
    /\ ~is_short_key(args_vec[pos])
    /\ Iterate(is_val(args_vec[pos]))
    /\ UNCHANGED << keys, schemas, declared, args_vec, start >>

\* the loop is over: every Arg's settings are applied, the first Err returns
ScanOver == pc = "scan" /\ pos > Len(args_vec)

Resolve ==
    /\ ScanOver
    /\ args' = ApplyAll(args, 1).args
    /\ result' = IF ApplyAll(args, 1).ok THEN "Ok" ELSE "Err"
    /\ pc' = "done"
    /\ UNCHANGED << keys, schemas, declared, scan_vars, panic_msg >>

Next ==
    \/ \E schema \in Schemas : With(schema)
    \/ Parse
    \/ ParseCmdNoArgs
    \/ ParseCmd
    \/ ScanLongKey
    \/ ScanShortKey
    \/ ScanVal
    \/ Resolve

Spec == Init /\ [][Next]_vars

\* ======================================================================
\* What the declarations and the tokens say, read as spec.md sections 4.1 to 4.3 read them
\* ======================================================================

\* the tokens the scan is given: args_vec without the skipped program path
ScannedTokens == SubSeq(args_vec, start + 1, Len(args_vec))

\* parse_cmd returned after its resolution loop ran
Resolved == pc = "done" /\ args_vec # << >> /\ pos > Len(args_vec)

\* the declaration carries the `?` marker right after its kind letter
MarkedAfter(s, eqs) == eqs # {} /\ At(s, Min(eqs) + 2) = "?"
DeclaredOptional(schema) ==
    MarkedAfter(StripWhitespace(schema), Occurrences(StripWhitespace(schema), Chars("=")))

HasDefault(d) == args[d].settings.default_val # None

\* the names under which lookups reach descriptor d
NamesOf(d) == {k \in DOMAIN keys : keys[k] = d - 1}

\* the key a long-key or short-key token names
TokenName(tok, kv) == IF is_long_key(tok) /\ kv # None THEN kv[1][1] ELSE tok
TokenKey(tok) == TokenName(tok, split_once(tok, Chars("=")))

\* no scanned token names a key of descriptor d (so no token supplies it a value)
NoValueSupplied(d) ==
    \A j \in 1..Len(ScannedTokens) : TokenKey(ScannedTokens[j]) \notin NamesOf(d)

\* the scan of section 4.2: the value lists every descriptor should accumulate.
\* A state is None (the scan fails) or Some([vals, awaiting]).
RefPut(vals, d, v) == Some([vals |-> [vals EXCEPT ![d] = Append(@, v)], awaiting |-> None])
RefKeep(st, awaiting) == IF st = None THEN None ELSE Some([st[1] EXCEPT !.awaiting = awaiting])

RefValue(vals, d, parsed) == IF parsed = None THEN None ELSE RefPut(vals, d, parsed[1])

RefLongFor(vals, d, val) ==
    IF args[d].kind = "Bool"
    THEN IF val # << >> THEN None ELSE RefPut(vals, d, TRUE)
    ELSE RefValue(vals, d, ParseAs(args[d].kind, val))

RefLong(vals, ix, kv) ==
    IF ix = None THEN None
    ELSE RefLongFor(vals, ix[1], IF kv = None THEN << >> ELSE kv[1][2])

RefShort(vals, ix, tok, awaiting) ==
    IF ix = None THEN None
    ELSE IF args[ix[1]].kind = "Bool" THEN RefKeep(RefPut(vals, ix[1], TRUE), awaiting)
    ELSE Some([vals |-> vals, awaiting |-> Some(tok)])

RefBare(vals, tok, awaiting) ==
    IF awaiting = None THEN None
    ELSE RefValue(vals, ArgIndex(awaiting[1])[1], ParseAs(args[ArgIndex(awaiting[1])[1]].kind, tok))

RefStep(tok, vals, awaiting) ==
    IF is_long_key(tok)
    THEN RefKeep(RefLong(vals, ArgIndex(TokenKey(tok)), split_once(tok, Chars("="))), awaiting)
    ELSE IF is_short_key(tok) THEN RefShort(vals, ArgIndex(tok), tok, awaiting)
    ELSE RefBare(vals, tok, awaiting)

RECURSIVE RefScan(_, _, _)
RefNext(toks, st) == IF st = None THEN None ELSE RefScan(Tail(toks), st[1].vals, st[1].awaiting)
RefScan(toks, vals, awaiting) ==
    IF toks = << >> THEN Some(vals) ELSE RefNext(toks, RefStep(Head(toks), vals, awaiting))

\* the values the scanned tokens supply to each descriptor, or None
Supplied == RefScan(ScannedTokens, [d \in 1..Len(args) |-> << >>], None)

SameVals(sup) == sup # None /\ \A d \in 1..Len(args) : args[d].vals = sup[1][d]

\* ======================================================================
\* Claims
\* ======================================================================

\* parse_cmd returned without its scan loop having returned an error
ReturnedAfterScan == pc = "done" /\ pos > Len(args_vec)

\* every descriptor other than d has a value or a default to fall back on
OthersSatisfied(d) == \A e \in 1..Len(args) : e # d => (args[e].vals # << >> \/ HasDefault(e))

\* the multi-value accessor of descriptor d's kind returns exactly vals under every name of d
ReadsAs(d, vals) ==
    \A k \in NamesOf(d) : GetMulti(args[d].kind, k) = [ok |-> TRUE, vals |-> vals]

\* C1: a descriptor declared optional (`?` marker) without a default, to which the scanned
\* tokens supply no value, does not make parse_cmd fail (when nothing else does), and the
\* multi-value accessor returns the empty sequence for it.
C1_OptionalAbsentReadsEmpty ==
    \A d \in 1..Len(args) :
        (/\ ReturnedAfterScan
         /\ DeclaredOptional(schemas[d])
         /\ ~HasDefault(d)
         /\ NoValueSupplied(d)
         /\ OthersSatisfied(d))
        => (result = "Ok" /\ ReadsAs(d, << >>))

\* C2: once parse_cmd has returned Ok, a descriptor that declares a default and to which
\* the scanned tokens supply no value reads back, under each of its names, as exactly one
\* value, the declared default.
C2_DefaultFillsAbsent ==
    \A d \in 1..Len(args) :
        (pc = "done" /\ result = "Ok" /\ HasDefault(d) /\ NoValueSupplied(d))
        => ReadsAs(d, << args[d].settings.default_val[1] >>)

\* C3: when a descriptor declared non-optional without a default gets no value from the
\* scanned tokens, parse_cmd returns an error, never Ok.
C3_MissingRequiredFails ==
    \A d \in 1..Len(args) :
        (/\ pc = "done"
         /\ ~DeclaredOptional(schemas[d])
         /\ ~HasDefault(d)
         /\ NoValueSupplied(d))
        => result = "Err"

\* C4: when the scan loop has run to the end of the tokens, every descriptor holds exactly
\* the values the tokens supply for its keys, in input order, repeated keys accumulating.
C4_ValuesInInputOrder == ScanOver => SameVals(Supplied)

\* the loop is at a long-key or short-key token whose name is not registered
AtUnknownKey ==
    /\ Scanning
    /\ is_long_key(args_vec[pos]) \/ is_short_key(args_vec[pos])
    /\ ArgIndex(TokenKey(args_vec[pos])) = None

\* C5: at a key token whose name is not registered, parse_cmd returns an error to its
\* caller at that token, and no descriptor's values change.
C5_UnknownKeyReturnsError ==
    [][AtUnknownKey => (pc' = "done" /\ result' = "Err" /\ args' = args)]_vars

\* the loop is at a bare value while no key awaits one
AtDanglingValue ==
    /\ Scanning
    /\ ~is_long_key(args_vec[pos])
    /\ ~is_short_key(args_vec[pos])
    /\ prev_key = << >>

\* C6: at a bare-value token with no key awaiting a value, parse_cmd returns an error
\* value to its caller.
C6_DanglingValueReturnsError ==
    [][AtDanglingValue => (pc' = "done" /\ result' = "Err")]_vars

\* the loop is at a short-key token of a registered descriptor that is not Bool
AtShortValueKey ==
    /\ Scanning
    /\ is_short_key(args_vec[pos])
    /\ ArgIndex(args_vec[pos]) # None
    /\ args[ArgIndex(args_vec[pos])[1]].kind # "Bool"

\* the loop is at a bare value that parses for the descriptor the awaiting key names
AtValueForKey ==
    /\ Scanning
    /\ ~is_long_key(args_vec[pos])
    /\ ~is_short_key(args_vec[pos])
    /\ ArgIndex(prev_key) # None
    /\ args[ArgIndex(prev_key)[1]].kind # "Bool"
    /\ ParseAs(args[ArgIndex(prev_key)[1]].kind, args_vec[pos]) # None

ValueAppended(d, parsed) == args' = Push(d, parsed[1]) /\ prev_key' = << >>

\* C8: a short-key token of a non-Bool descriptor makes the awaiting key exactly that key,
\* whatever it was before; the next bare value is parsed per the awaited descriptor's kind,
\* appended to it, and the awaiting key returns to none.
C8_ShortKeySetsAwaiting ==
    [][/\ AtShortValueKey => prev_key' = args_vec[pos]
       /\ AtValueForKey =>
            ValueAppended(ArgIndex(prev_key)[1],
                          ParseAs(args[ArgIndex(prev_key)[1]].kind, args_vec[pos]))]_vars

\* C9: the awaiting key never names a Bool descriptor, and the bare-value branch's
\* `How did I end up here?` panic is never reached.
C9_AwaitingNeverBool ==
    /\ (pc = "scan" /\ ArgIndex(prev_key) # None) => args[ArgIndex(prev_key)[1]].kind # "Bool"
    /\ panic_msg # "How did I end up here?"

\* ---------------------------------------------------------------------- C7
BothNames(p) == p.key_l # None /\ p.key_s # None

\* the i-th declaration uses the name
Declares(p, name) == Some(name) \in {p.key_l, p.key_s}

\* the position of the last declaration that uses the name
LastDecl(name) == LastOf({j \in 1..Len(schemas) : Declares(declared[j], name)})

\* no declaration after the i-th uses one of its two names
NotRedeclared(i, p) ==
    \A j \in (i + 1)..Len(schemas) :
        ~Declares(declared[j], p.key_l[1]) /\ ~Declares(declared[j], p.key_s[1])

SameLookup(i, k1, k2) ==
    /\ ArgIndex(k1) = Some(i)
    /\ ArgIndex(k2) = Some(i)
    /\ GetMulti(args[i].kind, k1) = [ok |-> TRUE, vals |-> args[i].vals]
    /\ GetMulti(args[i].kind, k2) = [ok |-> TRUE, vals |-> args[i].vals]

BothNamesSameIndexAt(i, p) == BothNames(p) => SameLookup(i, p.key_l[1], p.key_s[1])

\* C7 as stated: after any declarations and any scan, the long and the short name of a
\* descriptor declared with both map to that descriptor's index and read the same values.
C7_BothNamesSameIndex ==
    \A i \in 1..Len(args) : BothNamesSameIndexAt(i, declared[i])

NamesFollowLastDeclAt(i, p) ==
    BothNames(p) =>
        /\ ArgIndex(p.key_l[1]) = Some(LastDecl(p.key_l[1]))
        /\ ArgIndex(p.key_s[1]) = Some(LastDecl(p.key_s[1]))
        /\ NotRedeclared(i, p) => SameLookup(i, p.key_l[1], p.key_s[1])

\* C7 amended: each name of a descriptor declared with a long and a short name maps to
\* the last declaration that uses that name; so while no later declaration reuses either
\* name, both map to the descriptor's own index and read the same value sequence.
C7_NamesFollowLastDeclaration ==
    \A i \in 1..Len(args) : NamesFollowLastDeclAt(i, declared[i])

ReadBySecondName(i, p) ==
    /\ BothNames(p)
    /\ NotRedeclared(i, p)
    /\ \E j \in 1..Len(ScannedTokens) : ScannedTokens[j] = p.key_s[1]
    /\ args[i].vals # << >>
    /\ ~HasDefault(i)
    /\ GetMulti(args[i].kind, p.key_l[1]) = GetMulti(args[i].kind, p.key_s[1])

\* parse_cmd returned Ok after a short key was scanned for a two-name descriptor that an
\* earlier, different descriptor precedes, and both names read its values
C7_Witness ==
    /\ pc = "done"
    /\ result = "Ok"
    /\ Len(args) = 2
    /\ ReadBySecondName(2, declared[2])

\* --------------------------------------------------------------------- C10
LastToken == args_vec[Len(args_vec)]

\* the loop is at the last token, a short key of a registered non-Bool descriptor
AtTrailingKey == AtShortValueKey /\ pos = Len(args_vec)

\* the loop is over and the last token was a short key of a registered non-Bool descriptor
EndedAwaiting ==
    /\ ScanOver
    /\ Len(args_vec) > start
    /\ is_short_key(LastToken)
    /\ ArgIndex(LastToken) # None
    /\ args[ArgIndex(LastToken)[1]].kind # "Bool"

\* the resolution step treats descriptor d by the policy of section 4.3
ResolvedByPolicy(d) ==
    /\ (args[d].vals = << >> /\ ~HasDefault(d)) => result' = "Err"
    /\ (\A e \in 1..Len(args) : args[e].vals # << >> \/ HasDefault(e)) => result' = "Ok"
    /\ result' = "Ok" =>
         args'[d].vals = IF args[d].vals = << >>
                         THEN << args[d].settings.default_val[1] >>
                         ELSE args[d].vals

\* C10: a short non-Bool key that is the last token raises no error and adds no value (the
\* scan goes on to resolution with every value list as it was), and resolution then treats
\* its descriptor as it treats one whose key never appeared: an existing value list stands,
\* an empty one takes the default, and an empty one without a default fails parse_cmd.
C10_TrailingKeyIgnored ==
    [][/\ AtTrailingKey =>
            (pc' = "scan" /\ pos' > Len(args_vec) /\ result' = "none" /\ args' = args)
       /\ EndedAwaiting => (pc' = "done" /\ ResolvedByPolicy(ArgIndex(LastToken)[1]))]_vars

\* parse_cmd returned Ok on tokens ending in a short key still awaiting its value, and the
\* key's descriptor holds only its default
C10_Witness ==
    /\ Resolved
    /\ result = "Ok"
    /\ Len(args_vec) > start
    /\ is_short_key(LastToken)
    /\ prev_key = LastToken
    /\ ArgIndex(LastToken) # None
    /\ HasDefault(ArgIndex(LastToken)[1])
    /\ args[ArgIndex(LastToken)[1]].vals = << args[ArgIndex(LastToken)[1]].settings.default_val[1] >>

====
